---- MODULE Spec2Model ----
(***************************************************************************)
(* Model of axpo: the AEMET Antarctica scrapper / cache engine             *)
(* (src/axpo/aemet/scrapping.py) and its HTTP route                        *)
(* (src/axpo/aemet/routes.py).                                             *)
(*                                                                         *)
(* Time is counted in whole minutes from 2024-01-01T00:00 (negative values *)
(* are December 2023).  A datetime is a record [wall, off, aware]: the     *)
(* wall-clock reading, the UTC offset of its tzinfo, and whether it has a  *)
(* tzinfo at all.  A formatted timestamp is the tuple of its zero-padded   *)
(* fixed-width fields <<year, month, day, hour, minute, second>>, so that  *)
(* the string comparison SQLite makes is the lexicographic order of the    *)
(* tuples.  Numbers are fixed-point integers; a number rendered into SQL   *)
(* text is a sign and a digit sequence.                                    *)
(***************************************************************************)
EXTENDS Integers, Sequences, FiniteSets, TLC

VARIABLES
    measure,     \* the Measure table: its rows in rowid order
    op,          \* name of the last operation run
    args,        \* its arguments
    result,      \* what it returned / raised
    trace,       \* the network and storage calls it made, in order
    upstream,    \* how the provider behaves: a scenario for each station
    hostOffset,  \* UTC offset (minutes) of the host process's local timezone
    apiKey       \* the API_KEY environment variable

vars == <<measure, op, args, result, trace, upstream, hostOffset, apiKey>>

-----------------------------------------------------------------------------
(* Bounds of the model *)

\* cap on the number of rows of Measure under direct insertions
MaxRows == 3
\* cap on the number of rows of Measure under ingestion
MaxIngested == 4

-----------------------------------------------------------------------------
(* Stations *)

StationIds == {"89070", "89064"}

\* routes.Station: the display names the route accepts
Station == {"Meteo Station Gabriel de Castilla", "Meteo Station Juan Carlos I"}

IDENTITY_MAPPER ==
    [loc \in Station |->
        IF loc = "Meteo Station Gabriel de Castilla" THEN "89070" ELSE "89064"]

\* The Station table as seeded by scripts/insert_stations.sql (not in src/):
\* one row per known station, holding its display name.
StationTable ==
    [id \in StationIds |->
        IF id = "89070" THEN "Meteo Station Gabriel de Castilla"
                        ELSE "Meteo Station Juan Carlos I"]

-----------------------------------------------------------------------------
(* datetime *)

Naive(w) == [wall |-> w, off |-> 0, aware |-> FALSE]
Aware(w, o) == [wall |-> w, off |-> o, aware |-> TRUE]

\* datetime.astimezone(tz): same instant, wall clock of tz.  A naive value is
\* taken to be in the host's local timezone.
astimezone(dt, tzoff, host) ==
    LET instant == IF dt.aware THEN dt.wall - dt.off ELSE dt.wall - host
    IN  Aware(instant + tzoff, tzoff)

\* datetime.replace(tzinfo=tz): the wall clock is kept, the zone attached.
replace_tzinfo(dt, tzoff) == Aware(dt.wall, tzoff)

\* The calendar fields of a wall-clock reading (December 2023 .. February 2024).
DateFields(w) ==
    LET d == w \div 1440
        r == w % 1440
    IN  << IF d < 0 THEN 2023 ELSE 2024,
           IF d < 0 THEN 12 ELSE IF d < 31 THEN 1 ELSE 2,
           IF d < 0 THEN 32 + d ELSE IF d < 31 THEN d + 1 ELSE d - 30,
           r \div 60,
           r % 60,
           0 >>

\* dt.strftime(DATABASE_FORMAT), "%Y-%m-%dT%H:%M:%S": the wall clock of dt in
\* whatever zone dt carries.
strftime(dt) == DateFields(dt.wall)

\* Whether the fields are a date of the calendar.
ValidFields(f) ==
    /\ f[1] \in {2023, 2024}
    /\ f[2] \in 1..12
    /\ f[3] \in 1..(IF f[2] = 2 THEN 29 ELSE 31)
    /\ f[4] \in 0..23
    /\ f[5] \in 0..59

\* The wall-clock reading that calendar fields denote.
FieldsToWall(f) ==
    (IF f[1] = 2023 THEN f[3] - 32 ELSE IF f[2] = 1 THEN f[3] - 1 ELSE f[3] + 30)
        * 1440 + f[4] * 60 + f[5]

\* datetime.strptime(s, DATABASE_FORMAT): a naive datetime.
strptime(s) == Naive(FieldsToWall(s))

\* String comparison of two formatted timestamps (fixed-width fields).
RECURSIVE LexLess(_, _)
LexLess(a, b) ==
    IF a = <<>> \/ b = <<>> THEN a = <<>> /\ b # <<>>
    ELSE IF Head(a) # Head(b) THEN Head(a) < Head(b)
    ELSE LexLess(Tail(a), Tail(b))

LexLeq(a, b) == a = b \/ LexLess(a, b)

-----------------------------------------------------------------------------
(* numbers in SQL text *)

RECURSIVE Digits(_)
Digits(n) == IF n < 10 THEN <<n>> ELSE Append(Digits(n \div 10), n % 10)

\* "{}".format(x) for a number
FormatNum(x) == [neg |-> x < 0, digits |-> Digits(IF x < 0 THEN -x ELSE x)]

RECURSIVE DigitsValue(_)
DigitsValue(ds) ==
    IF ds = <<>> THEN 0
    ELSE 10 * DigitsValue(SubSeq(ds, 1, Len(ds) - 1)) + ds[Len(ds)]

\* SQLite reading a numeric literal
ParseNum(s) == IF s.neg THEN -DigitsValue(s.digits) ELSE DigitsValue(s.digits)

-----------------------------------------------------------------------------
(* Scrapper.insert_into_db *)

\* itertools.batched(data, n)
RECURSIVE batched(_, _)
batched(data, n) ==
    IF Len(data) = 0 THEN <<>>
    ELSE IF Len(data) <= n THEN <<data>>
    ELSE <<SubSeq(data, 1, n)>> \o batched(SubSeq(data, n + 1, Len(data)), n)

\* One row of the VALUES list.
FormatRow(val) ==
    [identifier  |-> val.identifier,
     ts          |-> strftime(val.ts),
     temperature |-> FormatNum(val.temperature),
     pressure    |-> FormatNum(val.pressure),
     velocity    |-> FormatNum(val.velocity)]

\* The row SQLite stores for one tuple of the VALUES list.
StoredRow(r) ==
    [identifier  |-> r.identifier,
     ts          |-> r.ts,
     temperature |-> ParseNum(r.temperature),
     pressure    |-> ParseNum(r.pressure),
     velocity    |-> ParseNum(r.velocity)]

\* Whether inserting row violates a constraint declared on Measure
\* (scripts/create_measure.sql, not in src/): the table declares no primary
\* key and no uniqueness, so no insertion ever conflicts.
MeasureConflict(table, row) == FALSE

\* INSERT OR IGNORE INTO Measure(...) VALUES rows
RECURSIVE InsertOrIgnore(_, _)
InsertOrIgnore(table, rows) ==
    IF rows = <<>> THEN table
    ELSE LET row == StoredRow(Head(rows))
         IN  InsertOrIgnore(
                 IF MeasureConflict(table, row) THEN table ELSE Append(table, row),
                 Tail(rows))

\* The VALUES list that reaches connection.execute: `rows` is rebound by every
\* pass of the batch loop and the statement is built and run once, after the
\* loop, so it holds the last batch.  With no batch at all `rows` was never
\* bound and the join raises UnboundLocalError.
RowsExecuted(batches) ==
    LET lastBatch == batches[Len(batches)]
    IN  [i \in 1..Len(lastBatch) |-> FormatRow(lastBatch[i])]

insert_into_db(table, data, batch_size) ==
    LET batches == batched(data, batch_size)
    IN  IF batches = <<>>
        THEN [measure |-> table, raised |-> "UnboundLocalError"]
        ELSE [measure |-> InsertOrIgnore(table, RowsExecuted(batches)),
              raised  |-> "none"]

-----------------------------------------------------------------------------
(* Scrapper.request_data *)

\* (mutant) the upper bound taken as exclusive
InWhereExclusive(row, lo, hi, identifier) ==
    /\ LexLeq(lo, row.ts)
    /\ LexLess(row.ts, hi)
    /\ row.identifier = identifier

\* The WHERE clause, on one stored row: ts compared as text.
InWhere(row, lo, hi, identifier) ==
    /\ LexLeq(lo, row.ts)
    /\ LexLeq(row.ts, hi)
    /\ row.identifier = identifier

\* One fetched row turned into a RenamedData record.
ParsedRow(row, host) ==
    [identifier  |-> row.identifier,
     ts          |-> astimezone(strptime(row.ts), 0, host),
     temperature |-> row.temperature,
     pressure    |-> row.pressure,
     velocity    |-> row.velocity,
     name        |-> StationTable[row.identifier]]

\* The bounds of the query, as rendered into the SQL text.
QueryBound(date, host) == strftime(astimezone(date, 0, host))

request_data(table, start_date, end_date, location, host) ==
    LET lo == QueryBound(start_date, host)
        hi == QueryBound(end_date, host)
        fetched == SelectSeq(table, LAMBDA row : InWhere(row, lo, hi, location))
    IN  [i \in 1..Len(fetched) |-> ParsedRow(fetched[i], host)]

-----------------------------------------------------------------------------
(* The upstream provider *)

\* A URL: the templated endpoint (kind "api", with the two formatted dates and
\* the station) or an address handed out by the provider (kind "datos", with
\* the station it serves and an opaque token).
ApiUrl(start, end, location) ==
    [kind |-> "api", start |-> start, end |-> end, location |-> location, token |-> ""]

DatosUrl(location, token) ==
    [kind |-> "datos", start |-> <<>>, end |-> <<>>, location |-> location, token |-> token]

NoUrl == [kind |-> "none", start |-> <<>>, end |-> <<>>, location |-> "", token |-> ""]

\* fhora as the provider writes it: the calendar fields and, when present,
\* the UTC offset.
Fhora(fields, hasOff, off) == [fields |-> fields, hasOff |-> hasOff, off |-> off]

\* Raw records the provider serves for station s (temperatures in tenths of a
\* degree, pressures in tenths of a hPa, velocities in tenths of a m/s).
RecA(s) ==
    [identificacion |-> s, nombre |-> "Estacion meteorologica",
     fhora |-> Fhora(<<2024, 1, 1, 0, 0, 0>>, TRUE, 0),
     temp |-> 24, pres |-> 9908, vel |-> 13]

\* written with a +01:00 offset, and carrying a field the scrapper ignores
RecB(s) ==
    [identificacion |-> s, nombre |-> "Estacion meteorologica",
     fhora |-> Fhora(<<2024, 1, 1, 1, 10, 0>>, TRUE, 60),
     temp |-> 27, pres |-> 9909, vel |-> 11, alt |-> 12]

\* written without any offset
RecNaive(s) ==
    [identificacion |-> s, nombre |-> "Estacion meteorologica",
     fhora |-> Fhora(<<2024, 1, 1, 0, 20, 0>>, FALSE, 0),
     temp |-> 24, pres |-> 9909, vel |-> 13]

\* lacking vel
RecMissing(s) ==
    [identificacion |-> s, nombre |-> "Estacion meteorologica",
     fhora |-> Fhora(<<2024, 1, 1, 0, 10, 0>>, TRUE, 0),
     temp |-> 24, pres |-> 9908]

ScenarioNames ==
    {"ok", "empty", "http404", "status300", "stage2_500", "stage2_404_list",
     "missing_field"}

\* What the provider answers for station s under each scenario: the status and
\* body of the first stage (json1: the body is the JSON envelope, whose datos
\* is the given URL) and of the second (json2: the body is a JSON array, data).
Scenario(name, s) ==
    LET mk(st1, j1, st2, j2, d) ==
            [status1 |-> st1, json1 |-> j1, datos |-> DatosUrl(s, name),
             status2 |-> st2, json2 |-> j2, data |-> d]
    IN  CASE name = "ok"              -> mk(200, TRUE, 200, TRUE, <<RecA(s), RecB(s)>>)
          [] name = "empty"           -> mk(200, TRUE, 200, TRUE, <<>>)
          [] name = "http404"         -> mk(404, TRUE, 200, TRUE, <<RecA(s)>>)
          [] name = "status300"       -> mk(300, TRUE, 200, TRUE, <<RecA(s)>>)
          [] name = "stage2_500"      -> mk(200, TRUE, 500, FALSE, <<>>)
          [] name = "stage2_404_list" -> mk(200, TRUE, 404, TRUE, <<RecNaive(s)>>)
          [] name = "missing_field"   -> mk(200, TRUE, 200, TRUE, <<RecA(s), RecMissing(s)>>)

\* The provider's behaviour: a scenario for each station.
Upstreams == [StationIds -> ScenarioNames]

\* session.get(url) of the first stage
Stage1Response(up, url) ==
    LET sc == Scenario(up[url.location], url.location)
    IN  [status |-> sc.status1, json |-> sc.json1, datos |-> sc.datos]

\* session.get(url) of the second stage: the provider serves the address it
\* handed out, and nothing at any other address.
Stage2Response(up, url) ==
    IF url.kind = "datos" /\ url.location \in StationIds
       /\ up[url.location] = url.token
    THEN LET sc == Scenario(up[url.location], url.location)
         IN  [status |-> sc.status2, json |-> sc.json2, data |-> sc.data]
    ELSE [status |-> 404, json |-> FALSE, data |-> <<>>]

-----------------------------------------------------------------------------
(* Scrapper._query_single_location *)

\* one call made by an operation
Event(ev, what, url) == [ev |-> ev, what |-> what, url |-> url]

\* Data.__annotations__
wanted_fields == {"identificacion", "nombre", "fhora", "temp", "pres", "vel"}

\* The English name of a Spanish field.
RenamedField(k) ==
    CASE k = "fhora"          -> "ts"
      [] k = "identificacion" -> "identifier"
      [] k = "nombre"         -> "name"
      [] k = "pres"           -> "pressure"
      [] k = "vel"            -> "velocity"
      [] k = "temp"           -> "temperature"

\* RenamedData.mapping()
mapping == [k \in wanted_fields |-> RenamedField(k)]

\* 1 hPa = 100 Pa
convertion_factor == [k \in {"pres"} |-> 100]

\* datetime.fromisoformat
fromisoformat(fh) ==
    IF fh.hasOff THEN Aware(FieldsToWall(fh.fields), fh.off)
                 ELSE Naive(FieldsToWall(fh.fields))

\* (mutant) the pressure left in hPa
ConvertedValueNoFactor(k, entry, host) ==
    IF k = "fhora" THEN astimezone(fromisoformat(entry[k]), 0, host)
    ELSE entry[k]

\* The value stored under the renamed field of k.
ConvertedValue(k, entry, host) ==
    IF k \in DOMAIN convertion_factor THEN convertion_factor[k] * entry[k]
    ELSE IF k = "fhora" THEN astimezone(fromisoformat(entry[k]), 0, host)
    ELSE entry[k]

\* new_obj, for an entry that holds every wanted field
Translate(entry, host) ==
    [f \in {mapping[k] : k \in wanted_fields} |->
        ConvertedValue(CHOOSE k \in wanted_fields : mapping[k] = f, entry, host)]

\* whether translating entry raises KeyError
TranslateRaises(entry) == ~ (wanted_fields \subseteq DOMAIN entry)

\* raise_for_status
IsHttpError(status) == status >= 400 /\ status < 600

\* log_if_error
LogIfError(resp, stage) ==
    IF resp.status # 200 THEN <<Event("log_error", stage, NoUrl)>> ELSE <<>>

\* (mutant) the address derived from the station instead of read from datos
SecondUrlGuessed(first_response) == DatosUrl(first_response.datos.location, "ok")

\* The address of the second GET.
SecondUrl(first_response) == first_response.datos

\* [calls, raised, output]
query_single_location(start, end, location, up, host) ==
    LET url   == ApiUrl(start, end, location)
        resp1 == Stage1Response(up, url)
        calls1 == <<Event("GET", "stage1", url)>> \o LogIfError(resp1, "stage1")
        url2  == SecondUrl(resp1)
        resp2 == Stage2Response(up, url2)
        calls2 == calls1 \o <<Event("GET", "stage2", url2)>> \o LogIfError(resp2, "stage2")
        data  == resp2.data
        fail(calls, kind) == [calls |-> calls, raised |-> kind, output |-> <<>>]
    IN  IF IsHttpError(resp1.status) THEN fail(calls1, "HTTPError")
        ELSE IF ~ resp1.json THEN fail(calls1, "JSONDecodeError")
        ELSE IF ~ resp2.json THEN fail(calls2, "JSONDecodeError")
        ELSE IF \E i \in 1..Len(data) : TranslateRaises(data[i])
             THEN fail(calls2, "KeyError")
        ELSE [calls  |-> calls2,
              raised |-> "none",
              output |-> [i \in 1..Len(data) |-> Translate(data[i], host)]]

-----------------------------------------------------------------------------
(* Scrapper.update_data *)

\* batch_size of insert_into_db when the caller gives none
DefaultBatchSize == 50

\* dt.strftime(DATEFORMAT), "%Y-%m-%dT%H:%M:%SUTC"
strftime_upstream(dt) == Append(DateFields(dt.wall), "UTC")

\* (mutant) a failed fetch caught inside the loop: its calls are recorded and
\* the loop goes on to the next station
update_step_caught(acc, start, end, location, up, host) ==
    LET q == query_single_location(start, end, location, up, host)
        ins == insert_into_db(acc.measure, q.output, DefaultBatchSize)
    IN  IF q.raised # "none"
        THEN [acc EXCEPT !.calls = @ \o q.calls]
        ELSE [measure |-> ins.measure,
              calls   |-> acc.calls \o q.calls
                              \o <<Event("insert_into_db", location, NoUrl)>>,
              raised  |-> ins.raised,
              chunks  |-> Append(acc.chunks, q.output)]

\* One pass of the loop over the locations, on acc = [measure, calls, raised,
\* chunks]: the fetch of the station, then the insertion of what it returned.
update_step(acc, start, end, location, up, host) ==
    LET q == query_single_location(start, end, location, up, host)
        ins == insert_into_db(acc.measure, q.output, DefaultBatchSize)
    IN  IF q.raised # "none"
        THEN [acc EXCEPT !.calls = @ \o q.calls, !.raised = q.raised]
        ELSE [measure |-> ins.measure,
              calls   |-> acc.calls \o q.calls
                              \o <<Event("insert_into_db", location, NoUrl)>>,
              raised  |-> ins.raised,
              chunks  |-> Append(acc.chunks, q.output)]

\* The loop over the locations: an exception ends it.
RECURSIVE update_loop(_, _, _, _, _, _)
update_loop(acc, start, end, locations, up, host) ==
    IF locations = <<>> \/ acc.raised # "none" THEN acc
    ELSE update_loop(update_step(acc, start, end, Head(locations), up, host),
                     start, end, Tail(locations), up, host)

update_data(table, start_date, end_date, locations, up, host) ==
    update_loop([measure |-> table, calls |-> <<>>, raised |-> "none", chunks |-> <<>>],
                strftime_upstream(astimezone(start_date, 0, host)),
                strftime_upstream(astimezone(end_date, 0, host)),
                locations, up, host)

-----------------------------------------------------------------------------
(* routes.get_data *)

\* Timezone: the lower-cased names of pytz.all_timezones the model draws from
Timezone == {"utc", "gmt", "europe/madrid"}

\* The UTC offset that replace(tzinfo=pytz.timezone(name)) attaches: a pytz
\* zone used as tzinfo without localize() carries the first offset of its
\* table, which for Europe/Madrid is local mean time, 15 minutes west of UTC.
TzinfoOffset(name) ==
    CASE name = "utc"           -> 0
      [] name = "gmt"           -> 0
      [] name = "europe/madrid" -> -15

AggregationLevel == {"hourly", "daily", "monthly"}

\* datetime.strptime(s, DATEFORMAT), "%Y-%m-%dT%H:%M"
StrptimeRaises(s) == ~ ValidFields(s)

\* (mutant) the parsed value taken as UTC and converted to the zone
ParsedDateConverted(s, timezone) ==
    astimezone(Aware(FieldsToWall(s), 0), TzinfoOffset(timezone), 0)

\* The aware date the handler passes on: the zone attached to the parsed value.
ParsedDate(s, timezone) == replace_tzinfo(strptime(s), TzinfoOffset(timezone))

\* Validation of the query parameters against their declared types.
ValidQuery(timezone, locations, aggregation_level) ==
    /\ timezone \in Timezone
    /\ \A i \in 1..Len(locations) : locations[i] \in Station
    /\ aggregation_level \in AggregationLevel \cup {"none"}

\* pd.DataFrame(data).columns
Columns(data) == IF data = <<>> THEN {} ELSE DOMAIN data[1]

\* df.drop(columns=...) raises KeyError unless every label is a column
DropRaises(columns, labels) == ~ (labels \subseteq columns)

\* the labels get_data drops, and the column it reads the time from
DroppedLabels == {"nombre", "identificacion"}
TimeColumn == "fhora"

\* The label of the bucket an instant falls in: the start of its hour or day,
\* or the last day of its month.
BucketOf(w, level) ==
    CASE level = "hourly"  -> (w \div 60) * 60
      [] level = "daily"   -> (w \div 1440) * 1440
      [] level = "monthly" -> IF w < 0 THEN -1440
                              ELSE IF w < 31 * 1440 THEN 30 * 1440 ELSE 59 * 1440

RECURSIVE SumOf(_, _)
SumOf(rows, column) ==
    IF rows = <<>> THEN 0 ELSE Head(rows)[column] + SumOf(Tail(rows), column)

\* the arithmetic mean, as a fraction
Mean(rows, column) == [num |-> SumOf(rows, column), den |-> Len(rows)]

\* The labels of the buckets from the first to the last that hold a sample.
BucketLabels(rows, level) ==
    LET labels == {BucketOf(rows[i][TimeColumn].wall, level) : i \in 1..Len(rows)}
        lo == CHOOSE x \in labels : \A y \in labels : x <= y
        hi == CHOOSE x \in labels : \A y \in labels : y <= x
    IN  IF rows = <<>> THEN {}
        ELSE {b \in lo..hi : b = BucketOf(b, level) \/ (level = "monthly" /\ b \in {-1440, 30 * 1440, 59 * 1440})}

RECURSIVE SortedSeq(_)
SortedSeq(S) ==
    IF S = {} THEN <<>>
    ELSE LET m == CHOOSE x \in S : \A y \in S : x <= y
         IN  <<m>> \o SortedSeq(S \ {m})

\* df.resample(code, on="fhora").mean(): one row per bucket, in time order,
\* holding the mean of every remaining column (NaN for a bucket without sample)
Resample(rows, columns, level) ==
    LET labels == SortedSeq(BucketLabels(rows, level))
        inBucket(b) == SelectSeq(rows, LAMBDA r : BucketOf(r[TimeColumn].wall, level) = b)
    IN  [i \in 1..Len(labels) |->
            [c \in columns |->
                IF c = TimeColumn THEN Aware(labels[i], 0)
                ELSE IF inBucket(labels[i]) = <<>> THEN [num |-> 0, den |-> 0]
                ELSE Mean(inBucket(labels[i]), c)]]

\* offset of Europe/Madrid in the months modelled (winter time)
MadridOffset == 60

\* The frame of one station, once the drop succeeded: columns dropped, the
\* time column parsed, resampled when asked, the station name attached.
StationFrame(data, loc, aggregation_level) ==
    LET columns == Columns(data) \ DroppedLabels
        kept == [i \in 1..Len(data) |-> [c \in columns |-> data[i][c]]]
        frame == IF aggregation_level = "none" THEN kept
                 ELSE Resample(kept, columns, aggregation_level)
    IN  [i \in 1..Len(frame) |->
            [c \in columns \cup {"nombre"} |->
                IF c = "nombre" THEN loc ELSE frame[i][c]]]

\* One pass of the loop over the locations, on acc = [calls, raised, frames].
station_step(acc, table, start_date, end_date, loc, aggregation_level, host) ==
    LET identifier == IDENTITY_MAPPER[loc]
        data == request_data(table, start_date, end_date, identifier, host)
        calls == Append(acc.calls,
                    Event("request_data", identifier,
                          [kind |-> "sql", start |-> QueryBound(start_date, host),
                           end |-> QueryBound(end_date, host),
                           location |-> identifier, token |-> ""]))
    IN  IF DropRaises(Columns(data), DroppedLabels)
             \/ TimeColumn \notin Columns(data)
        THEN [acc EXCEPT !.calls = calls, !.raised = "KeyError"]
        ELSE [calls  |-> calls,
              raised |-> "none",
              frames |-> acc.frames \o StationFrame(data, loc, aggregation_level)]

RECURSIVE station_loop(_, _, _, _, _, _, _)
station_loop(acc, table, start_date, end_date, locations, aggregation_level, host) ==
    IF locations = <<>> \/ acc.raised # "none" THEN acc
    ELSE station_loop(
             station_step(acc, table, start_date, end_date, Head(locations),
                          aggregation_level, host),
             table, start_date, end_date, Tail(locations), aggregation_level, host)

\* The records of the response: the index converted to Europe/Madrid and put
\* back as a column.
ResponseRows(frames) ==
    [i \in 1..Len(frames) |->
        [c \in DOMAIN frames[i] |->
            IF c = TimeColumn THEN astimezone(frames[i][c], MadridOffset, 0)
            ELSE frames[i][c]]]

\* The body of the handler, given the injected scrapper: [calls, status,
\* raised, body].
handler(table, start_date, end_date, timezone, locations, aggregation_level, host) ==
    LET fail(calls, kind) ==
            [calls |-> calls, status |-> 500, raised |-> kind, body |-> <<>>]
        start == ParsedDate(start_date, timezone)
        end   == ParsedDate(end_date, timezone)
        loop  == station_loop([calls |-> <<>>, raised |-> "none", frames |-> <<>>],
                              table, start, end, locations, aggregation_level, host)
    IN  IF StrptimeRaises(start_date) \/ StrptimeRaises(end_date)
        THEN fail(<<>>, "ValueError")
        ELSE IF loop.raised # "none" THEN fail(loop.calls, loop.raised)
        ELSE IF aggregation_level = "none" THEN fail(loop.calls, "AttributeError")
        ELSE [calls |-> loop.calls, status |-> 200, raised |-> "none",
              body |-> ResponseRows(loop.frames)]

\* routes.scrapper, the injected accessor: Scrapper.default() builds a
\* Scrapper from the environment, which sets up the schema, or raises when
\* API_KEY is empty.
ScrapperRaises(key) == key = ""

\* GET /aemet/antartica: the accessor is resolved, the query parameters are
\* validated, and the handler runs.
get_data(table, start_date, end_date, timezone, locations, aggregation_level, host, key) ==
    LET setup == <<Event("setup_database", "", NoUrl)>>
        h == handler(table, start_date, end_date, timezone, locations,
                     aggregation_level, host)
    IN  IF ScrapperRaises(key)
        THEN [calls |-> <<>>, status |-> 500, raised |-> "EnvironmentError", body |-> <<>>]
        ELSE IF ~ ValidQuery(timezone, locations, aggregation_level)
        THEN [calls |-> setup, status |-> 422, raised |-> "ValidationError", body |-> <<>>]
        ELSE [h EXCEPT !.calls = setup \o @]

-----------------------------------------------------------------------------
(* Inputs *)

\* local timezones of the host: UTC, and one hour east of it
HostOffsets == {0, 60}

\* batch sizes a direct caller of insert_into_db passes
BatchSizes == {1, 2}

\* numbers of rows a direct caller of insert_into_db passes: none, fewer than
\* a batch, a whole batch, more than a batch
DirectLengths == 0..3

\* The rows a direct caller of insert_into_db passes: n rows of station s, ten
\* minutes apart from 2024-01-01T00:00 UTC, already normalized to UTC.
DirectRows(s, n) ==
    [i \in 1..n |->
        [identifier  |-> s,
         name        |-> "Estacion meteorologica",
         ts          |-> Aware(10 * (i - 1), 0),
         temperature |-> 20 + i,
         pressure    |-> 990800 + 10 * i,
         velocity    |-> 10 + i]]

\* dates passed to request_data by a direct caller: 00:00 UTC, 01:10+01:00
\* (00:10 UTC) and 00:20 UTC of 2024-01-01
QueryTimes == {Aware(0, 0), Aware(70, 60), Aware(20, 0)}

\* ranges passed to update_data: the same twenty minutes, given in UTC and
\* given one hour east of it
UpdateRanges ==
    {[start |-> Aware(0, 0), end |-> Aware(20, 0)],
     [start |-> Aware(60, 60), end |-> Aware(80, 60)]}

\* the lists of stations passed to update_data
LocationLists ==
    {<<a>> : a \in StationIds}
        \cup {<<a, b>> : <<a, b>> \in {p \in StationIds \X StationIds : p[1] # p[2]}}

InList(x, list) == \E i \in 1..Len(list) : list[i] = x

-----------------------------------------------------------------------------
(* State machine *)

\* The state after the Scrapper is constructed with a credential: the schema
\* is set up, Measure is empty.
Constructed ==
    /\ measure = <<>>
    /\ op = "init"
    /\ args = <<>>
    /\ result = <<>>
    /\ trace = <<Event("setup_database", "", NoUrl)>>
    /\ hostOffset \in HostOffsets

\* a direct call of Scrapper.insert_into_db(data, batch_size)
InsertIntoDb ==
    \E s \in StationIds, n \in DirectLengths, b \in BatchSizes :
        LET data == DirectRows(s, n)
            r == insert_into_db(measure, data, b)
        IN  /\ Len(r.measure) <= MaxRows
            /\ measure' = r.measure
            /\ op' = "insert_into_db"
            /\ args' = [data |-> data, batch_size |-> b]
            /\ result' = [raised |-> r.raised, before |-> measure]
            /\ trace' = IF r.raised = "none"
                        THEN <<Event("execute", "INSERT OR IGNORE", NoUrl)>>
                        ELSE <<>>
            /\ UNCHANGED <<upstream, hostOffset, apiKey>>

\* a call of Scrapper.request_data(start_date, end_date, location)
RequestData ==
    \E start \in QueryTimes, end \in QueryTimes, location \in StationIds :
        /\ op' = "request_data"
        /\ args' = [start_date |-> start, end_date |-> end, location |-> location]
        /\ result' = [raised |-> "none",
                      value  |-> request_data(measure, start, end, location, hostOffset)]
        /\ trace' = <<Event("execute", "SELECT",
                            [kind |-> "sql", start |-> QueryBound(start, hostOffset),
                             end |-> QueryBound(end, hostOffset),
                             location |-> location, token |-> ""])>>
        /\ UNCHANGED <<measure, upstream, hostOffset, apiKey>>

\* a call of Scrapper.update_data(start_date, end_date, locations)
UpdateData ==
    \E locations \in LocationLists, range \in UpdateRanges :
        LET r == update_data(measure, range.start, range.end, locations,
                             upstream, hostOffset)
        IN  /\ Len(r.measure) <= MaxIngested
            /\ measure' = r.measure
            /\ op' = "update_data"
            /\ args' = [start_date |-> range.start, end_date |-> range.end,
                        locations |-> locations]
            /\ result' = [raised |-> r.raised, chunks |-> r.chunks, before |-> measure]
            /\ trace' = r.calls
            /\ UNCHANGED <<upstream, hostOffset, apiKey>>

\* the cache engine used directly: insertions and reads
InitStore ==
    /\ Constructed
    /\ upstream = [s \in StationIds |-> "ok"]
    /\ apiKey = "KEY"

NextStore == InsertIntoDb \/ RequestData

SpecStore == InitStore /\ [][NextStore]_vars

\* ingestion from a provider that behaves in any of the ways modelled
InitIngest ==
    /\ Constructed
    /\ upstream \in Upstreams
    /\ apiKey = "KEY"

NextIngest == UpdateData

SpecIngest == InitIngest /\ [][NextIngest]_vars

\* the cache engine filled by ingestion and then read
NextCache == UpdateData \/ RequestData

SpecCache == InitIngest /\ [][NextCache]_vars

\* date strings of a request: 2024-01-01T00:00, 2024-01-01T00:20, and one that
\* does not parse (month 13)
RequestDates ==
    {[start |-> <<2024, 1, 1, 0, 0>>, end |-> <<2024, 1, 1, 0, 20>>],
     [start |-> <<2024, 13, 1, 0, 0>>, end |-> <<2024, 1, 1, 0, 20>>],
     [start |-> <<2024, 1, 1, 0, 0>>, end |-> <<2024, 13, 1, 0, 20>>]}

\* timezone parameters of a request: three zones and an unknown name
TimezoneInputs == Timezone \cup {"mars/olympus"}

\* locations parameters of a request: known stations, and lists naming an
\* unknown one
LocationInputs ==
    {<<a>> : a \in Station}
        \cup {<<a, b>> : <<a, b>> \in {p \in Station \X Station : p[1] # p[2]}}
        \cup {<<"Meteo Station Vostok">>,
              <<"Meteo Station Juan Carlos I", "Meteo Station Vostok">>}

\* aggregation_level parameters of a request ("none": the parameter is absent)
AggregationInputs == {"none", "hourly", "monthly"}

\* a GET /aemet/antartica request
GetData ==
    \E dates \in RequestDates, timezone \in TimezoneInputs,
       locations \in LocationInputs, aggregation_level \in AggregationInputs :
        LET r == get_data(measure, dates.start, dates.end, timezone, locations,
                          aggregation_level, hostOffset, apiKey)
        IN  /\ op' = "get_data"
            /\ args' = [start_date |-> dates.start, end_date |-> dates.end,
                        timezone |-> timezone, locations |-> locations,
                        aggregation_level |-> aggregation_level]
            /\ result' = [status |-> r.status, raised |-> r.raised, body |-> r.body]
            /\ trace' = r.calls
            /\ UNCHANGED <<measure, upstream, hostOffset, apiKey>>

\* the HTTP service over a cache filled by ingestion, as the test drives it
InitHttp ==
    /\ Constructed
    /\ upstream = [s \in StationIds |-> "ok"]
    /\ apiKey \in {"", "KEY"}

NextHttp == UpdateData \/ GetData

SpecHttp == InitHttp /\ [][NextHttp]_vars

-----------------------------------------------------------------------------
(* Properties: ingestion and storage *)

\* the UTC instant a stored row's ts denotes
StoredInstant(row) == FieldsToWall(row.ts)

\* the instant of an aware datetime
InstantOf(dt) == dt.wall - dt.off

NoDuplicateKeys(table) ==
    \A i, j \in 1..Len(table) :
        (table[i].identifier = table[j].identifier /\ table[i].ts = table[j].ts)
            => i = j

\* C1: calling update_data a second time with the same range and locations,
\* against the same provider responses, leaves Measure as the first call left
\* it, with at most one row per (identifier, ts).
C1_IdempotentIngestion ==
    [][(op = "update_data" /\ op' = "update_data" /\ args' = args)
           => (measure' = measure /\ NoDuplicateKeys(measure'))]_vars

RowsOfStation(rows, s) == SelectSeq(rows, LAMBDA r : r.identifier = s)

\* a range enclosing every timestamp a direct caller inserts
EnclosingStart == Aware(-1440, 0)
EnclosingEnd == Aware(1440, 0)

\* C2: insert_into_db(rows, batch_size) of rows of one station with distinct
\* timestamps, whatever their number, succeeds, and request_data over an
\* enclosing range then returns one more record per inserted row, in order,
\* with the row's temperature, pressure and velocity.
C2_RoundTrip ==
    op = "insert_into_db" =>
        /\ result.raised = "none"
        /\ \A s \in StationIds :
            LET sent == RowsOfStation(args.data, s)
                was  == request_data(result.before, EnclosingStart, EnclosingEnd,
                                     s, hostOffset)
                got  == request_data(measure, EnclosingStart, EnclosingEnd,
                                     s, hostOffset)
            IN  /\ Len(got) = Len(was) + Len(sent)
                /\ \A i \in 1..Len(sent) :
                    /\ got[Len(was) + i].temperature = sent[i].temperature
                    /\ got[Len(was) + i].pressure = sent[i].pressure
                    /\ got[Len(was) + i].velocity = sent[i].velocity

IsStage1(e) == e.ev = "GET" /\ e.what = "stage1"
IsStage2(e) == e.ev = "GET" /\ e.what = "stage2"

\* what the provider answered to the stage-1 GET recorded as e
Stage1Of(e) == Stage1Response(upstream, e.url)

\* the position of the stage-1 GET of the fetch that the call at i belongs to
FetchOf(i) ==
    CHOOSE j \in 1..i :
        IsStage1(trace[j]) /\ \A k \in (j + 1)..i : ~ IsStage1(trace[k])

\* the calls after position i that the fetch started at i, or the insertion of
\* its station, would make
LaterCallsOf(i) ==
    {k \in (i + 1)..Len(trace) :
        \/ (IsStage2(trace[k]) /\ FetchOf(k) = i)
        \/ (trace[k].ev = "insert_into_db" /\ FetchOf(k) = i)}

ServedTo(i) == Scenario(upstream[args.locations[i]], args.locations[i]).data

\* C10: every record translated from a raw record holding the six fields has
\* exactly the six English keys, pressure = 100 x pres, and identifier, name,
\* temperature, velocity equal to identificacion, nombre, temp, vel.
C10_Translation ==
    op = "update_data" =>
        \A i \in 1..Len(result.chunks) :
            /\ Len(result.chunks[i]) = Len(ServedTo(i))
            /\ \A j \in 1..Len(ServedTo(i)) :
                LET raw == ServedTo(i)[j]
                    new == result.chunks[i][j]
                IN  /\ DOMAIN new = {"identifier", "name", "ts", "temperature",
                                     "pressure", "velocity"}
                    /\ new["pressure"] = 100 * raw["pres"]
                    /\ new["identifier"] = raw["identificacion"]
                    /\ new["name"] = raw["nombre"]
                    /\ new["temperature"] = raw["temp"]
                    /\ new["velocity"] = raw["vel"]

\* an ingestion that translated a record carrying a field beyond the six
C10_Witness ==
    /\ op = "update_data"
    /\ \E i \in 1..Len(result.chunks) :
        \E j \in 1..Len(ServedTo(i)) :
            /\ "alt" \in DOMAIN ServedTo(i)[j]
            /\ result.chunks[i][j]["pressure"] = 990900

\* the stations whose fetch the last ingestion started, in the order started
RECURSIVE StationsFetched(_)
StationsFetched(calls) ==
    IF calls = <<>> THEN <<>>
    ELSE IF IsStage1(Head(calls))
         THEN <<Head(calls).url.location>> \o StationsFetched(Tail(calls))
         ELSE StationsFetched(Tail(calls))

\* the stations the last ingestion inserted for, in the order inserted
RECURSIVE StationsInserted(_)
StationsInserted(calls) ==
    IF calls = <<>> THEN <<>>
    ELSE IF Head(calls).ev = "insert_into_db"
         THEN <<Head(calls).what>> \o StationsInserted(Tail(calls))
         ELSE StationsInserted(Tail(calls))

\* whether the fetch of the i-th listed station fails against the provider
FetchFails(i) ==
    LET sc == Scenario(upstream[args.locations[i]], args.locations[i])
    IN  \/ sc.status1 \in 400..599
        \/ ~ sc.json1
        \/ ~ sc.json2
        \/ \E j \in 1..Len(sc.data) : ~ (wanted_fields \subseteq DOMAIN sc.data[j])

\* whether the insertion of what the i-th listed station's fetch returned
\* fails: the statement cannot be built from an empty list
InsertFails(i) ==
    /\ ~ FetchFails(i)
    /\ Scenario(upstream[args.locations[i]], args.locations[i]).data = <<>>

\* the positions of the listed stations whose fetch or insertion fails
FailingPositions == {i \in 1..Len(args.locations) : FetchFails(i) \/ InsertFails(i)}

\* the position of the last station the ingestion reaches: the first one that
\* fails, or the last of the list
LastReached ==
    IF FailingPositions = {} THEN Len(args.locations)
    ELSE CHOOSE k \in FailingPositions : \A j \in FailingPositions : k <= j

\* the rows Measure gains from the records returned for one station
RowsOfChunk(chunk) == [j \in 1..Len(chunk) |-> StoredRow(FormatRow(chunk[j]))]

\* the rows Measure gains from the chunks of the stations at positions from..to
RECURSIVE RowsOfChunks(_, _, _)
RowsOfChunks(chunks, from, to) ==
    IF from > to \/ from > Len(chunks) THEN <<>>
    ELSE RowsOfChunk(chunks[from]) \o RowsOfChunks(chunks, from + 1, to)

\* C11: update_data fetches the stations in the order listed, inserting for one
\* station before it starts the fetch of the next; when the fetch or the
\* insertion of the k-th station fails the call raises, nothing is fetched or
\* inserted for a station after the k-th, and the rows inserted for the
\* stations before the k-th are in Measure; with no failure the call returns
\* and every station was fetched and inserted for.
C11_IngestionOrderAndAbort ==
    op = "update_data" =>
        LET k == LastReached
            fetched == StationsFetched(trace)
            inserted == StationsInserted(trace)
        IN  /\ fetched = SubSeq(args.locations, 1, k)
            /\ \A p \in 2..Len(trace) :
                   IsStage1(trace[p]) => trace[p - 1].ev = "insert_into_db"
            /\ \A p \in 1..Len(trace) :
                   trace[p].ev = "insert_into_db" =>
                       /\ trace[p].what = trace[FetchOf(p)].url.location
                       /\ \E q \in FetchOf(p)..p : IsStage2(trace[q])
            /\ (FailingPositions # {}) =>
                   /\ result.raised # "none"
                   /\ inserted = SubSeq(args.locations, 1,
                                        IF InsertFails(k) THEN k ELSE k - 1)
                   /\ measure = result.before
                                    \o RowsOfChunks(result.chunks, 1, k - 1)
            /\ (FailingPositions = {}) =>
                   /\ result.raised = "none"
                   /\ inserted = args.locations
                   /\ measure = result.before \o RowsOfChunks(result.chunks, 1, k)

\* an ingestion of two stations in which the rows of the first were inserted
\* and the insertion for the second failed
C11_Witness ==
    /\ op = "update_data"
    /\ Len(args.locations) = 2
    /\ InsertFails(2)
    /\ FailingPositions = {2}
    /\ result.raised = "UnboundLocalError"
    /\ Len(measure) = Len(result.before) + 2

\* the instant an upstream fhora with a written offset denotes
UpstreamInstant(fh) == FieldsToWall(fh.fields) - fh.off

\* the upstream records, with an offset written in fhora, that a stored or
\* returned record of a station carries the measurements of
SourceRecords(rec) ==
    LET data == Scenario(upstream[rec.identifier], rec.identifier).data
    IN  {j \in 1..Len(data) :
            /\ wanted_fields \subseteq DOMAIN data[j]
            /\ data[j].fhora.hasOff
            /\ data[j].temp = rec.temperature
            /\ 100 * data[j].pres = rec.pressure
            /\ data[j].vel = rec.velocity}

\* the fhora of the j-th record the provider serves for the station of rec
FhoraOf(rec, j) == Scenario(upstream[rec.identifier], rec.identifier).data[j].fhora

\* the ts stored for every ingested record is the UTC wall clock of its fhora
StoredAsUtc ==
    \A i \in 1..Len(measure) :
        \A j \in SourceRecords(measure[i]) :
            measure[i].ts = DateFields(UpstreamInstant(FhoraOf(measure[i], j)))

\* the ts returned for every ingested record is UTC-aware and denotes the
\* instant of its fhora
ReturnedAsUtc ==
    op = "request_data" =>
        \A i \in 1..Len(result.value) :
            \A j \in SourceRecords(result.value[i]) :
                /\ result.value[i].ts.aware
                /\ result.value[i].ts.off = 0
                /\ InstantOf(result.value[i].ts)
                       = UpstreamInstant(FhoraOf(result.value[i], j))

\* C12: for every upstream record, whatever offset its fhora is written with
\* and whatever the host's local timezone, the ts stored in Measure is the UTC
\* wall clock of that instant, and the ts request_data returns for the row is
\* a UTC-aware value denoting the same instant.
C12_UtcNormalization == StoredAsUtc /\ ReturnedAsUtc

\* a read, on a host one hour east of UTC, that returned the row of a record
\* whose fhora was written with +01:00
C12_Witness ==
    /\ op = "request_data"
    /\ hostOffset = 60
    /\ \E i \in 1..Len(result.value) :
        \E j \in SourceRecords(result.value[i]) :
            FhoraOf(result.value[i], j).off = 60

-----------------------------------------------------------------------------
(* Properties: the HTTP route *)

\* a request that passes validation, whose dates parse, served by a process
\* that holds a credential
ValidRequest ==
    /\ op = "get_data"
    /\ apiKey # ""
    /\ args.timezone \in Timezone
    /\ \A i \in 1..Len(args.locations) : args.locations[i] \in Station
    /\ ValidFields(args.start_date)
    /\ ValidFields(args.end_date)

\* the UTC instants a valid request asks for
RequestedStart == FieldsToWall(args.start_date) - TzinfoOffset(args.timezone)
RequestedEnd == FieldsToWall(args.end_date) - TzinfoOffset(args.timezone)

StationIdOf(loc) ==
    IF loc = "Meteo Station Gabriel de Castilla" THEN "89070" ELSE "89064"

\* the cached samples of a station inside the requested range
CachedSamples(loc) ==
    SelectSeq(measure,
              LAMBDA r : /\ r.identifier = StationIdOf(loc)
                         /\ RequestedStart <= StoredInstant(r)
                         /\ StoredInstant(r) <= RequestedEnd)

HourOf(w) == (w \div 60) * 60

\* the objects of the response that are the row of station loc for the hour
\* starting at the UTC instant b
HourRows(loc, b) ==
    {i \in 1..Len(result.body) :
        /\ {"ts", "name", "temperature", "pressure", "velocity"}
               \subseteq DOMAIN result.body[i]
        /\ result.body[i]["name"] = loc
        /\ result.body[i]["ts"] = Aware(b + 60, 60)}

\* C3: with aggregation_level=hourly, for every requested station and every
\* hour holding a cached sample of it inside the range, the response has
\* exactly one row of that station and hour, holding the means of the hour's
\* samples and the start of the hour in Europe/Madrid time.
C3_HourlyAggregation ==
    (ValidRequest /\ args.aggregation_level = "hourly") =>
        \A k \in 1..Len(args.locations) :
            LET loc == args.locations[k]
                samples == CachedSamples(loc)
            IN  \A b \in {HourOf(StoredInstant(samples[i])) : i \in 1..Len(samples)} :
                    LET bucket ==
                            SelectSeq(samples, LAMBDA r : HourOf(StoredInstant(r)) = b)
                    IN  /\ Cardinality(HourRows(loc, b)) = 1
                        /\ \A i \in HourRows(loc, b) :
                            /\ result.body[i]["temperature"] =
                                   [num |-> SumOf(bucket, "temperature"), den |-> Len(bucket)]
                            /\ result.body[i]["pressure"] =
                                   [num |-> SumOf(bucket, "pressure"), den |-> Len(bucket)]
                            /\ result.body[i]["velocity"] =
                                   [num |-> SumOf(bucket, "velocity"), den |-> Len(bucket)]

\* the position in the locations parameter of the station an object names
ListedAt(row) ==
    CHOOSE k \in 1..Len(args.locations) : args.locations[k] = row["name"]

\* C4: a valid request is answered 200 with objects that each have the keys
\* ts, name, temperature, pressure, velocity and no other, named after a
\* requested station; the stations' rows come in the order of the locations
\* parameter, and a station with cached rows in the range has rows.
C4_ResponseShape ==
    ValidRequest =>
        /\ result.status = 200
        /\ \A i \in 1..Len(result.body) :
            /\ DOMAIN result.body[i] =
                   {"ts", "name", "temperature", "pressure", "velocity"}
            /\ InList(result.body[i]["name"], args.locations)
        /\ \A i, j \in 1..Len(result.body) :
            i < j => ListedAt(result.body[i]) <= ListedAt(result.body[j])
        /\ \A k \in 1..Len(args.locations) :
            CachedSamples(args.locations[k]) # <<>> =>
                \E i \in 1..Len(result.body) :
                    result.body[i]["name"] = args.locations[k]

\* a request the service must reject: an unknown station, an unknown timezone
\* or a date string that does not parse
RejectedRequest ==
    /\ op = "get_data"
    /\ \/ \E i \in 1..Len(args.locations) : args.locations[i] \notin Station
       \/ args.timezone \notin Timezone
       \/ ~ ValidFields(args.start_date)
       \/ ~ ValidFields(args.end_date)

\* C6: a request naming an unknown station, an unknown timezone or a malformed
\* date is rejected without any network call and without any storage call,
\* the schema setup of the injected accessor included.
C6_ValidationBeforeWork ==
    RejectedRequest => (result.status # 200 /\ trace = <<>>)

\* the request_data calls of the last request
RequestDataCalls == SelectSeq(trace, LAMBDA e : e.ev = "request_data")

\* the last request reached the local store with a query
Queried == op = "get_data" /\ RequestDataCalls # <<>>

\* The bounds of the first query are the instants that show, in the zone of
\* the timezone parameter, the wall clock written in the date strings.
ZoneAttached ==
    Queried =>
        /\ FieldsToWall(RequestDataCalls[1].url.start) + TzinfoOffset(args.timezone)
               = FieldsToWall(args.start_date)
        /\ FieldsToWall(RequestDataCalls[1].url.end) + TzinfoOffset(args.timezone)
               = FieldsToWall(args.end_date)

SameDateStrings ==
    /\ Queried /\ Queried'
    /\ args'.start_date = args.start_date
    /\ args'.end_date = args.end_date

DifferentBounds ==
    /\ RequestDataCalls'[1].url.start # RequestDataCalls[1].url.start
    /\ RequestDataCalls'[1].url.end # RequestDataCalls[1].url.end

\* C7 as claimed: the zone is attached to the parsed dates without shifting
\* the wall clock, and two requests with the same date strings and different
\* timezone values query different instants.
C7_TimezoneAsClaimed ==
    [][/\ ZoneAttached'
       /\ (SameDateStrings /\ args'.timezone # args.timezone) => DifferentBounds]_vars

\* C7 as amended: the zone is attached to the parsed dates without shifting
\* the wall clock, and two requests with the same date strings whose timezone
\* values attach different UTC offsets query different instants.
C7_TimezoneAttached ==
    [][/\ ZoneAttached'
       /\ (SameDateStrings
             /\ TzinfoOffset(args'.timezone) # TzinfoOffset(args.timezone))
           => DifferentBounds]_vars

\* a request for 00:00..00:20 in europe/madrid whose query starts at 00:15 UTC
C7_Witness ==
    /\ Queried
    /\ args.timezone = "europe/madrid"
    /\ RequestDataCalls[1].url.start = <<2024, 1, 1, 0, 15, 0>>

\* C9: a valid request makes one request_data call per station of the
\* locations parameter, in the order listed, each with the StationId of its
\* station: 89070 for Gabriel de Castilla, 89064 for Juan Carlos I.
C9_StationResolution ==
    ValidRequest =>
        /\ Len(RequestDataCalls) = Len(args.locations)
        /\ \A i \in 1..Len(args.locations) :
            RequestDataCalls[i].what = StationIdOf(args.locations[i])

====
